---- MODULE Spec2Model ----
(***************************************************************************)
(* grouter: routing table (grouter.go), middleware pipeline and server     *)
(* lifecycle (server.go).                                                  *)
(*                                                                         *)
(* The specifications share the variables:                                 *)
(*   SpecRouter  registration calls (Use, UseGlobal) on one Router;        *)
(*   Spec        one request dispatched through runHandlersForPath against *)
(*               a routing table built by registration calls;              *)
(*   SpecServer  the singleton Server: GetServer, SetRouter, SetTLSConfig, *)
(*               Listen and Shutdown called from concurrent goroutines,    *)
(*               one source statement per step;                            *)
(*   SpecServerFair  SpecServer with every goroutine in a call scheduled;  *)
(*   SpecBinding registration, one Listen call that builds the mux, then   *)
(*               requests through the bindings, with registration calls    *)
(*               between them.                                             *)
(***************************************************************************)
EXTENDS Integers, Sequences, FiniteSets, TLC

(***************************************************************************)
(* Bounds.                                                                 *)
(***************************************************************************)
\* Registration calls (Use and UseGlobal together) made on one router.
MaxCalls == 4

\* Goroutines that call the Server's operations.
NProcs == 3

\* Calls of GetServer, SetRouter, Listen and Shutdown made in one run.
MaxOps == 4

\* Listen calls made in one run (each creates one http.Server).
MaxListen == 2

(***************************************************************************)
(* Values.                                                                 *)
(***************************************************************************)
GET == "GET"

POST == "POST"

Methods == {GET, POST}

\* Request paths, as sequences of characters: "/t" and "/t2".
Paths == {<<"t">>, <<"t", "2">>}

\* RequestHandler values (opaque functions; what one does is decided when it
\* is invoked).
Handlers == {"h1", "h2"}

\* Exclusion patterns are literal regular expressions: "x" and "2".
\* ignoredPathRegexes arguments: none, or two patterns of which the second
\* matches "/t2" only.
IgnoreLists == {<< >>, << <<"x">>, <<"2">> >>}

\* http.StatusOK, http.StatusNotFound, http.StatusInternalServerError
StatusOK == 200

StatusNotFound == 404

StatusInternalServerError == 500

\* ResponseWriter.StatusCode == nil
NoStatus == 0

\* *TLSConfig arguments: nil, a config whose files exist, a config whose
\* files do not.
TLSConfigs == {"nil", "certA", "certX"}

\* *Router values: r1 is the router GetServer creates, r2 another NewRouter.
RouterIds == {"r1", "r2"}

Procs == 1..NProcs

VARIABLES
    router,      \* the Router: trie, paths, globalHandlers
    useLog,      \* history: the Use calls made, in call order
    calls,       \* history: number of registration calls made
    mux,         \* the paths the ServeMux built by Listen has a binding for
    pc,          \* position of the request in runHandlersForPath
    req,         \* the request: path and method
    idx,         \* index of the range loop of the current phase
    nextCalled,  \* the nextCalled local of the current phase
    StatusCode,  \* ResponseWriter.StatusCode (NoStatus = nil)
    invoked,     \* history: handler invocations, in order, with outcome
    handlerWrote, \* history: some handler called WriteHeader
    once,        \* sync.Once: the function of once.Do has run
    instance,    \* the Server _instance points to
    servers,     \* the http.Server values created, by number: their state
    inflight,    \* the http.Server values with a request being handled
    proc,        \* per goroutine: the call it is in and its position
    ops,         \* history: number of calls started
    listens,     \* history: number of Listen calls started
    crashed,     \* the process ended: log.Fatal or a panic
    cleanupRuns, \* history: times the teardown callback was run
    returned,    \* history: the *Server values GetServer calls returned
    notice       \* the last notice Shutdown printed

routerVars == <<router, useLog, calls, mux>>

dispatchVars == <<pc, req, idx, nextCalled, StatusCode, invoked, handlerWrote>>

serverVars ==
    <<once, instance, servers, inflight, proc, ops, listens, crashed,
      cleanupRuns, returned, notice>>

vars == <<routerVars, dispatchVars, serverVars>>

(***************************************************************************)
(* Router (grouter.go).                                                    *)
(***************************************************************************)
\* make(Route)
EmptyRoute == [m \in {} |-> << >>]

\* route[method] of a Go map: the nil slice when the key is absent.
MapGet(route, method) == IF method \in DOMAIN route THEN route[method] ELSE << >>

\* route[method] = value
MapPut(route, method, value) ==
    [m \in (DOMAIN route) \cup {method} |-> IF m = method THEN value ELSE route[m]]

\* trie.Get(path) # nil
TrieHas(trie, path) == path \in DOMAIN trie

\* trie.Put(path, value)
TriePut(trie, path, value) ==
    [p \in (DOMAIN trie) \cup {path} |-> IF p = path THEN value ELSE trie[p]]

NewRouter ==
    [trie |-> [p \in {} |-> EmptyRoute],
     paths |-> {},
     globalHandlers |-> [beforeAll |-> << >>, afterAll |-> << >>]]

\* A bug Use could have: the path is not recorded in the known paths.
RouterUseForgettingPath(r, path, method, handler) ==
    LET value == IF TrieHas(r.trie, path) THEN r.trie[path] ELSE EmptyRoute
        keyed == IF Len(MapGet(value, method)) = 0
                 THEN MapPut(value, method, << >>)
                 ELSE value
        appended == MapPut(keyed, method, Append(keyed[method], handler))
    IN  [r EXCEPT !.trie = TriePut(@, path, appended)]

\* A bug Use could have: the method's handlers are replaced, not appended to.
RouterUseReplacing(r, path, method, handler) ==
    LET value == IF TrieHas(r.trie, path) THEN r.trie[path] ELSE EmptyRoute
    IN  [r EXCEPT !.paths = @ \cup {path},
                  !.trie = TriePut(@, path, MapPut(value, method, <<handler>>))]

\* Router.Use
RouterUse(r, path, method, handler) ==
    LET value == IF TrieHas(r.trie, path) THEN r.trie[path] ELSE EmptyRoute
        keyed == IF Len(MapGet(value, method)) = 0
                 THEN MapPut(value, method, << >>)
                 ELSE value
        appended == MapPut(keyed, method, Append(keyed[method], handler))
    IN  [r EXCEPT !.paths = @ \cup {path},
                  !.trie = TriePut(@, path, appended)]

\* A nil *GlobalRouteOptions.
NilOptions == [nil |-> TRUE]

\* *GlobalRouteOptions arguments of UseGlobal.
GlobalOptions ==
    {NilOptions} \cup [afterAll : BOOLEAN, ignoredPathRegexes : IgnoreLists]

\* A bug: absent options are taken for the after-route flag.
convertNilToAfterAll(options) ==
    IF "nil" \in DOMAIN options
    THEN [afterAll |-> TRUE, ignoredPathRegexes |-> << >>]
    ELSE [afterAll |-> options.afterAll,
          ignoredPathRegexes |-> options.ignoredPathRegexes]

convertToConcreteGlobalRouteOptions(options) ==
    IF "nil" \in DOMAIN options
    THEN [afterAll |-> FALSE, ignoredPathRegexes |-> << >>]
    ELSE [afterAll |-> options.afterAll,
          ignoredPathRegexes |-> options.ignoredPathRegexes]

\* Router.UseGlobal
RouterUseGlobal(r, handler, options) ==
    LET concreteOptions == convertToConcreteGlobalRouteOptions(options)
        entry == [options |-> concreteOptions, handler |-> handler]
    IN  IF concreteOptions.afterAll
        THEN [r EXCEPT !.globalHandlers.afterAll = Append(@, entry)]
        ELSE [r EXCEPT !.globalHandlers.beforeAll = Append(@, entry)]

\* A Use call, made while no request is being dispatched.
Use(path, method, handler) ==
    /\ pc \in {"off", "idle"}
    /\ calls < MaxCalls
    /\ router' = RouterUse(router, path, method, handler)
    /\ useLog' = Append(useLog, <<path, method, handler>>)
    /\ calls' = calls + 1
    /\ UNCHANGED <<mux, dispatchVars, serverVars>>

\* A UseGlobal call, made while no request is being dispatched.
UseGlobal(handler, options) ==
    /\ pc \in {"off", "idle"}
    /\ calls < MaxCalls
    /\ router' = RouterUseGlobal(router, handler, options)
    /\ calls' = calls + 1
    /\ UNCHANGED <<useLog, mux, dispatchVars, serverVars>>

\* A goroutine outside any call.
IdleProc ==
    [op |-> "none", pc |-> "idle", arg |-> "nil", will |-> FALSE,
     from |-> "top", forced |-> FALSE, srv |-> 0, err |-> "nil",
     stopped |-> FALSE]

\* Before the first GetServer call: _instance is nil, nothing is running.
ServerStart ==
    /\ once = FALSE
    /\ instance = [id |-> 0, router |-> "nil", tls |-> "nil", httpServer |-> 0,
                   serving |-> FALSE, shuttingDown |-> FALSE]
    /\ servers = << >>
    /\ inflight = {}
    /\ proc = [p \in Procs |-> IdleProc]
    /\ ops = 0
    /\ listens = 0
    /\ crashed = "no"
    /\ cleanupRuns = 0
    /\ returned = {}
    /\ notice = "none"

RouterInit ==
    /\ ServerStart
    /\ router = NewRouter
    /\ useLog = << >>
    /\ calls = 0
    /\ mux = {}
    /\ pc = "off"
    /\ req = [path |-> << >>, method |-> GET]
    /\ idx = 0
    /\ nextCalled = FALSE
    /\ StatusCode = NoStatus
    /\ invoked = << >>
    /\ handlerWrote = FALSE

RouterNext ==
    \/ \E p \in Paths, m \in Methods, h \in Handlers : Use(p, m, h)
    \/ \E h \in Handlers, o \in GlobalOptions : UseGlobal(h, o)

SpecRouter == RouterInit /\ [][RouterNext]_vars

\* The handler sequence stored for (path, method).
HandlersOf(r, path, method) ==
    IF TrieHas(r.trie, path) THEN MapGet(r.trie[path], method) ELSE << >>

RECURSIVE LoggedFor(_, _, _)
\* The handlers the log registers for (path, method), in call order.
LoggedFor(log, path, method) ==
    IF log = << >> THEN << >>
    ELSE LET c == log[Len(log)]
             rest == LoggedFor(SubSeq(log, 1, Len(log) - 1), path, method)
         IN  IF c[1] = path /\ c[2] = method THEN Append(rest, c[3]) ELSE rest

\* C1: after any sequence of Use calls, the handlers stored for each
\* (path, method) are exactly the handlers registered for that pair, in call
\* order; a pair no Use call named has no entry (its method key is absent from
\* the Route, or there is no Route).
C1_UseKeepsCallOrder ==
    \A p \in Paths, m \in Methods :
        /\ HandlersOf(router, p, m) = LoggedFor(useLog, p, m)
        /\ (TrieHas(router.trie, p) /\ m \in DOMAIN router.trie[p])
               => LoggedFor(useLog, p, m) # << >>

\* C1 witness: two handlers registered for one pair, in between one for the
\* other method of the same path.
C1_Witness ==
    /\ useLog = << << <<"t">>, GET, "h2" >>, << <<"t">>, POST, "h1" >>,
                   << <<"t">>, GET, "h1" >> >>
    /\ HandlersOf(router, <<"t">>, GET) = <<"h2", "h1">>
    /\ HandlersOf(router, <<"t">>, POST) = <<"h1">>

\* C23: after any sequence of Use calls, the known-paths set holds exactly
\* the paths the path index has a Route for, every stored Route has a method
\* key, and every method key present maps to a non-empty handler sequence.
C23_PathsMatchRoutes ==
    /\ router.paths = DOMAIN router.trie
    /\ \A p \in DOMAIN router.trie :
           /\ DOMAIN router.trie[p] # {}
           /\ \A m \in DOMAIN router.trie[p] : Len(router.trie[p][m]) > 0

\* C23 witness: three Use calls, two for one pair; one path is known with a
\* Route of two methods, the other path is unknown and has no Route.
C23_Witness ==
    /\ Len(useLog) = 3
    /\ router.paths = {<<"t">>}
    /\ ~TrieHas(router.trie, <<"t", "2">>)
    /\ DOMAIN router.trie[<<"t">>] = {GET, POST}
    /\ Len(router.trie[<<"t">>][GET]) = 2

\* What the documentation says UseGlobal(handler, options) makes of router r:
\* one entry appended to afterAll when options is present with the flag
\* true, and otherwise to beforeAll, absent options counting as flag false
\* with no pattern.
ExpectedUseGlobal(r, handler, options) ==
    LET present == "nil" \notin DOMAIN options
        after == present /\ options.afterAll
        entry == [options |->
                     [afterAll |-> after,
                      ignoredPathRegexes |->
                          IF present THEN options.ignoredPathRegexes ELSE << >>],
                  handler |-> handler]
    IN  [trie |-> r.trie,
         paths |-> r.paths,
         globalHandlers |->
             IF after
             THEN [beforeAll |-> r.globalHandlers.beforeAll,
                   afterAll |-> r.globalHandlers.afterAll \o <<entry>>]
             ELSE [beforeAll |-> r.globalHandlers.beforeAll \o <<entry>>,
                   afterAll |-> r.globalHandlers.afterAll]]

\* C24: a UseGlobal call appends exactly one entry at the end of afterAll
\* (options present, flag true) or of beforeAll (otherwise) and leaves the
\* other list, the earlier entries, the routes and the known paths as they
\* were; absent options give what options with flag false and no pattern give.
C24_UseGlobalAppendsOne ==
    [][/\ \A h \in Handlers, o \in GlobalOptions :
              RouterUseGlobal(router, h, o) = ExpectedUseGlobal(router, h, o)
       /\ \A h \in Handlers :
              RouterUseGlobal(router, h, NilOptions) =
                  RouterUseGlobal(router, h, [afterAll |-> FALSE,
                                              ignoredPathRegexes |-> << >>])
       /\ router'.globalHandlers # router.globalHandlers =>
              /\ router'.trie = router.trie
              /\ router'.paths = router.paths
              /\ Len(router'.globalHandlers.beforeAll)
                     + Len(router'.globalHandlers.afterAll)
                   = Len(router.globalHandlers.beforeAll)
                     + Len(router.globalHandlers.afterAll) + 1
              /\ \E h \in Handlers, o \in GlobalOptions :
                     router' = ExpectedUseGlobal(router, h, o)]_vars

\* C24 witness: after a Use call, three UseGlobal calls: absent options and
\* options with patterns went to beforeAll in call order, one entry went to
\* afterAll, and the route is still there.
C24_Witness ==
    /\ calls = 4
    /\ Len(useLog) = 1
    /\ Len(router.globalHandlers.beforeAll) = 2
    /\ router.globalHandlers.beforeAll[1].options.ignoredPathRegexes = << >>
    /\ router.globalHandlers.beforeAll[2].options.ignoredPathRegexes # << >>
    /\ Len(router.globalHandlers.afterAll) = 1
    /\ router.globalHandlers.afterAll[1].options.afterAll
    /\ router.paths = {useLog[1][1]}

(***************************************************************************)
(* Middleware pipeline (server.go, runHandlersForPath/runGlobalHandlers).  *)
(***************************************************************************)
\* regexp.MatchString for a literal pattern: it occurs somewhere in the path.
MatchString(regex, path) ==
    \E i \in 1..(Len(path) - Len(regex) + 1) :
        SubSeq(path, i, i + Len(regex) - 1) = regex

\* A bug the exclusion test could have: every pattern must match.
IgnoredByAll(handler, path) ==
    /\ Len(handler.options.ignoredPathRegexes) > 0
    /\ \A i \in 1..Len(handler.options.ignoredPathRegexes) :
           MatchString(handler.options.ignoredPathRegexes[i], path)

\* runGlobalHandlers: the inner loop that sets `ignored`.
Ignored(handler, path) ==
    \E i \in 1..Len(handler.options.ignoredPathRegexes) :
        MatchString(handler.options.ignoredPathRegexes[i], path)

\* A bug: the before flag read the wrong way round.
GlobalListSwapped(before) ==
    IF before THEN router.globalHandlers.afterAll
    ELSE router.globalHandlers.beforeAll

\* runGlobalHandlers: the list the before flag selects.
GlobalList(before) ==
    IF before THEN router.globalHandlers.beforeAll
    ELSE router.globalHandlers.afterAll

\* A bug: a handler's error is not looked at.
LoopControlIgnoringError(err, called) ==
    IF ~called THEN "break" ELSE "continue"

\* What both range loops do after a handler returned: err and called are the
\* handler's error and the value of nextCalled.
LoopControl(err, called) ==
    IF err THEN "return"
    ELSE IF ~called THEN "break"
    ELSE "continue"

\* A bug: the route lookup only tests the path.
RouteMissingPathOnly(r, path, method) == ~TrieHas(r.trie, path)

\* runHandlersForPath: the test that answers 404.
RouteMissing(r, path, method) ==
    \/ ~TrieHas(r.trie, path)
    \/ Len(MapGet(r.trie[path], method)) = 0

\* A bug: the after handlers are left out once the route handlers are done.
PhaseAfterSkippingAfterAll(phase) ==
    CASE phase = "before" -> "lookup"
      [] phase = "route" -> "default"
      [] phase = "after" -> "default"

\* A bug: a beforeAll chain left without an error ends the dispatch.
PhaseAfterStoppingAtBefore(phase) ==
    CASE phase = "before" -> "done"
      [] phase = "route" -> "after"
      [] phase = "after" -> "default"

\* runHandlersForPath: where control goes when a phase's loop is left
\* without an error.
PhaseAfter(phase) ==
    CASE phase = "before" -> "lookup"
      [] phase = "route" -> "after"
      [] phase = "after" -> "default"

\* A bug: no default response.
DefaultStatusMissing(status) == status

\* runHandlersForPath: the default response when nothing was sent.
DefaultStatus(status) ==
    IF status = NoStatus THEN StatusInternalServerError ELSE status

\* What a handler does in one invocation: calls next, returns an error,
\* calls WriteHeader(200).
Outcomes == [next : BOOLEAN, err : BOOLEAN, wrote : BOOLEAN]

\* One handler invocation of the phase at pc, and the loop's reaction.
InvokeHandler(o) ==
    LET called == nextCalled \/ o.next
        written == IF o.wrote THEN StatusOK ELSE StatusCode
        control == LoopControl(o.err, called)
    IN  /\ invoked' = Append(invoked,
                          [phase |-> pc, idx |-> idx, next |-> o.next, err |-> o.err])
        /\ handlerWrote' = (handlerWrote \/ o.wrote)
        /\ CASE control = "return" ->
                  /\ StatusCode' = StatusInternalServerError
                  /\ pc' = "done"
                  /\ nextCalled' = called
                  /\ idx' = idx
             [] control = "break" ->
                  /\ StatusCode' = written
                  /\ pc' = PhaseAfter(pc)
                  /\ nextCalled' = FALSE
                  /\ idx' = 1
             [] control = "continue" ->
                  /\ StatusCode' = written
                  /\ pc' = pc
                  /\ nextCalled' = called
                  /\ idx' = idx + 1

\* The per-request binding calls runHandlersForPath with a fresh
\* ResponseWriter; runGlobalHandlers(before) starts.
HandleRequest(path, method) ==
    /\ pc = "idle"
    /\ req' = [path |-> path, method |-> method]
    /\ pc' = "before"
    /\ idx' = 1
    /\ nextCalled' = FALSE
    /\ StatusCode' = NoStatus
    /\ invoked' = << >>
    /\ handlerWrote' = FALSE
    /\ UNCHANGED <<routerVars, serverVars>>

\* runGlobalHandlers: one iteration of the loop over an ignored entry.
GlobalSkip(before) ==
    /\ pc = (IF before THEN "before" ELSE "after")
    /\ idx <= Len(GlobalList(before))
    /\ Ignored(GlobalList(before)[idx], req.path)
    /\ idx' = idx + 1
    /\ UNCHANGED <<routerVars, serverVars, pc, req, nextCalled, StatusCode, invoked, handlerWrote>>

\* runGlobalHandlers: one iteration of the loop that invokes the handler.
GlobalInvoke(before) ==
    /\ pc = (IF before THEN "before" ELSE "after")
    /\ idx <= Len(GlobalList(before))
    /\ ~Ignored(GlobalList(before)[idx], req.path)
    /\ \E o \in Outcomes : InvokeHandler(o)
    /\ UNCHANGED <<routerVars, serverVars, req>>

\* runGlobalHandlers: the loop ran out of entries; return nil.
GlobalReturn(before) ==
    /\ pc = (IF before THEN "before" ELSE "after")
    /\ idx > Len(GlobalList(before))
    /\ pc' = PhaseAfter(pc)
    /\ idx' = 1
    /\ nextCalled' = FALSE
    /\ UNCHANGED <<routerVars, serverVars, req, StatusCode, invoked, handlerWrote>>

\* A bug: a miss returns without writing a status.
LookupMissWritesNothing ==
    /\ pc = "lookup"
    /\ IF RouteMissing(router, req.path, req.method)
       THEN /\ StatusCode' = StatusCode
            /\ pc' = "done"
       ELSE /\ StatusCode' = StatusCode
            /\ pc' = "route"
    /\ UNCHANGED <<routerVars, serverVars, req, idx, nextCalled, invoked, handlerWrote>>

\* A bug: after a miss the afterAll chain is run.
LookupMissRunsAfterAll ==
    /\ pc = "lookup"
    /\ IF RouteMissing(router, req.path, req.method)
       THEN /\ StatusCode' = StatusNotFound
            /\ pc' = "after"
       ELSE /\ StatusCode' = StatusCode
            /\ pc' = "route"
    /\ UNCHANGED <<routerVars, serverVars, req, idx, nextCalled, invoked, handlerWrote>>

\* runHandlersForPath: the route lookup.
Lookup ==
    /\ pc = "lookup"
    /\ IF RouteMissing(router, req.path, req.method)
       THEN /\ StatusCode' = StatusNotFound
            /\ pc' = "done"
       ELSE /\ StatusCode' = StatusCode
            /\ pc' = "route"
    /\ UNCHANGED <<routerVars, serverVars, req, idx, nextCalled, invoked, handlerWrote>>

\* runHandlersForPath: one iteration of the loop over the route handlers.
RouteInvoke ==
    /\ pc = "route"
    /\ idx <= Len(HandlersOf(router, req.path, req.method))
    /\ \E o \in Outcomes : InvokeHandler(o)
    /\ UNCHANGED <<routerVars, serverVars, req>>

\* runHandlersForPath: the route loop ran out of handlers.
RouteDone ==
    /\ pc = "route"
    /\ idx > Len(HandlersOf(router, req.path, req.method))
    /\ pc' = PhaseAfter(pc)
    /\ idx' = 1
    /\ nextCalled' = FALSE
    /\ UNCHANGED <<routerVars, serverVars, req, StatusCode, invoked, handlerWrote>>

\* runHandlersForPath: the default response, and return.
DefaultResponse ==
    /\ pc = "default"
    /\ StatusCode' = DefaultStatus(StatusCode)
    /\ pc' = "done"
    /\ UNCHANGED <<routerVars, serverVars, req, idx, nextCalled, invoked, handlerWrote>>

\* One registration call with handler h1 from a state of the registration
\* history.
RegisterOne(S) ==
    LET open == {s \in S : s.calls < MaxCalls}
    IN  S \cup {[router |-> RouterUse(s.router, p, m, "h1"),
                 useLog |-> Append(s.useLog, <<p, m, "h1">>),
                 calls |-> s.calls + 1] : s \in open, p \in Paths, m \in Methods}
          \cup {[router |-> RouterUseGlobal(s.router, "h1", o),
                 useLog |-> s.useLog,
                 calls |-> s.calls + 1] : s \in open, o \in GlobalOptions}

RECURSIVE RegisterUpTo(_, _)
RegisterUpTo(S, n) == IF n = 0 THEN S ELSE RegisterUpTo(RegisterOne(S), n - 1)

\* The routers that at most MaxCalls registration calls build.
Registered ==
    RegisterUpTo({[router |-> NewRouter, useLog |-> << >>, calls |-> 0]}, MaxCalls)

\* Registration is complete before the request arrives.
Init ==
    /\ \E s \in Registered :
           /\ router = s.router
           /\ useLog = s.useLog
           /\ calls = s.calls
    /\ mux = {}
    /\ ServerStart
    /\ pc = "idle"
    /\ req = [path |-> << >>, method |-> GET]
    /\ idx = 0
    /\ nextCalled = FALSE
    /\ StatusCode = NoStatus
    /\ invoked = << >>
    /\ handlerWrote = FALSE

Next ==
    \/ \E p \in Paths, m \in Methods : HandleRequest(p, m)
    \/ \E before \in BOOLEAN : GlobalSkip(before)
    \/ \E before \in BOOLEAN : GlobalInvoke(before)
    \/ \E before \in BOOLEAN : GlobalReturn(before)
    \/ Lookup
    \/ RouteInvoke
    \/ RouteDone
    \/ DefaultResponse

Spec == Init /\ [][Next]_vars

(***************************************************************************)
(* Bindings (server.go, Listen): the ServeMux Listen builds from the known *)
(* paths, and the function bound to each path.                             *)
(***************************************************************************)
\* Listen: for path := range instance.router.paths { mux.HandleFunc(...) };
\* the server then serves.
ListenBind ==
    /\ pc = "off"
    /\ mux' = router.paths
    /\ pc' = "idle"
    /\ UNCHANGED <<router, useLog, calls, serverVars, req, idx, nextCalled,
                   StatusCode, invoked, handlerWrote>>

\* A bug: a request is dispatched for every path the router knows by now.
BindingOfKnownPath(path, method) ==
    /\ pc = "idle"
    /\ path \in router.paths
    /\ req' = [path |-> path, method |-> method]
    /\ pc' = "before"
    /\ idx' = 1
    /\ nextCalled' = FALSE
    /\ StatusCode' = NoStatus
    /\ invoked' = << >>
    /\ handlerWrote' = FALSE
    /\ UNCHANGED <<routerVars, serverVars>>

\* The function bound to localPath is called for a request the mux matched
\* with it: NewResponseWriter(w), then runHandlersForPath(c, localPath, ...).
Binding(path, method) ==
    /\ pc = "idle"
    /\ path \in mux
    /\ req' = [path |-> path, method |-> method]
    /\ pc' = "before"
    /\ idx' = 1
    /\ nextCalled' = FALSE
    /\ StatusCode' = NoStatus
    /\ invoked' = << >>
    /\ handlerWrote' = FALSE
    /\ UNCHANGED <<routerVars, serverVars>>

\* A request for a path the mux has no pattern for: the mux answers 404
\* itself and no binding is called.
MuxNotFound(path, method) ==
    /\ pc = "idle"
    /\ path \notin mux
    /\ req' = [path |-> path, method |-> method]
    /\ StatusCode' = StatusNotFound
    /\ pc' = "answered"
    /\ invoked' = << >>
    /\ UNCHANGED <<routerVars, serverVars, idx, nextCalled, handlerWrote>>

\* The binding after runHandlersForPath returned: it reads
\* *wrapper.StatusCode, which panics on the nil pointer.
BindingReadStatus ==
    /\ pc = "done"
    /\ pc' = IF StatusCode = NoStatus THEN "panic" ELSE "answered"
    /\ UNCHANGED <<routerVars, serverVars, req, idx, nextCalled, StatusCode,
                   invoked, handlerWrote>>

\* The binding returns; the next request gets a new ResponseWriter.
BindingReturn ==
    /\ pc = "answered"
    /\ pc' = "idle"
    /\ req' = [path |-> << >>, method |-> GET]
    /\ idx' = 0
    /\ nextCalled' = FALSE
    /\ StatusCode' = NoStatus
    /\ invoked' = << >>
    /\ handlerWrote' = FALSE
    /\ UNCHANGED <<routerVars, serverVars>>

BindingNext ==
    \/ \E p \in Paths, m \in Methods : Use(p, m, "h1")
    \/ \E o \in GlobalOptions : UseGlobal("h1", o)
    \/ ListenBind
    \/ \E p \in Paths, m \in Methods : Binding(p, m)
    \/ \E p \in Paths, m \in Methods : MuxNotFound(p, m)
    \/ \E before \in BOOLEAN : GlobalSkip(before)
    \/ \E before \in BOOLEAN : GlobalInvoke(before)
    \/ \E before \in BOOLEAN : GlobalReturn(before)
    \/ Lookup
    \/ RouteInvoke
    \/ RouteDone
    \/ DefaultResponse
    \/ BindingReadStatus
    \/ BindingReturn

\* Registration, one Listen call, then requests one after the other, with
\* registration calls between them.
SpecBinding == RouterInit /\ [][BindingNext]_vars

(***************************************************************************)
(* Properties of the pipeline, stated on the history of one dispatch.      *)
(***************************************************************************)
\* The invocations of one phase, in order.
PhaseTrace(phase) == SelectSeq(invoked, LAMBDA e : e.phase = phase)

\* The positions (phase, index) invoked, in order.
Positions(trace) == [k \in 1..Len(trace) |-> <<trace[k].phase, trace[k].idx>>]

\* Positions 1..n of a phase.
PhasePositions(phase, n) == [k \in 1..n |-> <<phase, k>>]

\* Some invoked handler returned a failure.
SomeFailed == \E k \in 1..Len(invoked) : invoked[k].err

\* The handlers registered for the request's (path, method).
Registered4Req == LoggedFor(useLog, req.path, req.method)

\* A global entry one of whose patterns matches the path.
Excluded(entry, path) ==
    \E regex \in {entry.options.ignoredPathRegexes[i] :
                     i \in 1..Len(entry.options.ignoredPathRegexes)} :
        MatchString(regex, path)

\* C2 as stated: with no handler registered for the request's (path, method),
\* the dispatch ends with status 404, whatever the global handlers do.
C2_MissAlways404 ==
    (pc = "done" /\ Registered4Req = << >>) => StatusCode = StatusNotFound

\* C2: with no handler registered for the request's (path, method), the
\* dispatch ends with status 404 unless a beforeAll handler failed.
C2_Miss404UnlessBeforeFails ==
    (pc = "done" /\ Registered4Req = << >> /\ ~SomeFailed)
        => StatusCode = StatusNotFound

\* C2 witness: a Route exists for the path with handlers for the other method
\* only, a beforeAll handler ran and wrote a status, and the dispatch ended 404.
C2_Witness ==
    /\ pc = "done"
    /\ Registered4Req = << >>
    /\ TrieHas(router.trie, req.path)
    /\ Len(invoked) > 0
    /\ handlerWrote
    /\ StatusCode = StatusNotFound

\* No exclusion pattern matches, every invoked handler called next, none
\* failed.
AllPassOn ==
    /\ \A before \in BOOLEAN : \A k \in 1..Len(GlobalList(before)) :
           ~Excluded(GlobalList(before)[k], req.path)
    /\ \A k \in 1..Len(invoked) : invoked[k].next /\ ~invoked[k].err

\* beforeAll, the route's handlers, afterAll: each once, in registration order.
FullOrder ==
    PhasePositions("before", Len(router.globalHandlers.beforeAll))
        \o PhasePositions("route", Len(Registered4Req))
        \o PhasePositions("after", Len(router.globalHandlers.afterAll))

\* C3 as stated: for every request that no exclusion pattern matches and whose
\* handlers all call next and do not fail, the handlers run in the full order.
C3_FullOrderAlways ==
    (pc = "done" /\ AllPassOn) => Positions(invoked) = FullOrder

\* C3: the same, for a request with a handler registered for its
\* (path, method).
C3_FullOrderWhenRouted ==
    (pc = "done" /\ AllPassOn /\ Registered4Req # << >>)
        => Positions(invoked) = FullOrder

\* C3 witness: before1, before2, route, after.
C3_Witness ==
    /\ pc = "done"
    /\ AllPassOn
    /\ Positions(invoked) =
           << <<"before", 1>>, <<"before", 2>>, <<"route", 1>>, <<"after", 1>> >>

\* C4: a handler failure is the last invocation of the dispatch, the dispatch
\* ends with that step, and the recorded status is 500.
C4_FailureStopsWith500 ==
    \A k \in 1..Len(invoked) :
        invoked[k].err =>
            /\ k = Len(invoked)
            /\ pc = "done"
            /\ StatusCode = StatusInternalServerError

\* C4 witness: an afterAll handler failed after an earlier handler had written
\* a status, and handlers of the same phase were left.
C4_Witness ==
    /\ pc = "done"
    /\ handlerWrote
    /\ Len(invoked) >= 3
    /\ invoked[Len(invoked)].err
    /\ invoked[Len(invoked)].next
    /\ invoked[Len(invoked)].phase = "after"
    /\ invoked[Len(invoked)].idx < Len(router.globalHandlers.afterAll)

\* The last route handler invoked returned success without calling next.
RouteEndedWithoutNext ==
    LET t == PhaseTrace("route")
    IN  /\ Len(t) > 0
        /\ ~t[Len(t)].next
        /\ ~t[Len(t)].err

\* The first afterAll entry that is not excluded for the path was invoked.
FirstAfterAllInvoked ==
    \A k \in 1..Len(router.globalHandlers.afterAll) :
        (/\ ~Excluded(router.globalHandlers.afterAll[k], req.path)
         /\ \A j \in 1..(k - 1) :
                Excluded(router.globalHandlers.afterAll[j], req.path))
            => \E i \in 1..Len(invoked) :
                   invoked[i].phase = "after" /\ invoked[i].idx = k

\* C5: when the route phase ended with a handler that returned success
\* without calling next, the afterAll chain has run by the end of the
\* dispatch: its first entry not excluded for the path was invoked.
C5_AfterAllRunsAfterRouteStop ==
    (pc = "done" /\ RouteEndedWithoutNext) => FirstAfterAllInvoked

\* C5 witness: the first of two route handlers did not call next, the second
\* was not run, and an afterAll handler ran.
C5_Witness ==
    /\ pc = "done"
    /\ Len(Registered4Req) = 2
    /\ Len(PhaseTrace("route")) = 1
    /\ RouteEndedWithoutNext
    /\ Len(PhaseTrace("after")) > 0

\* The indices of a global list that are not excluded for the path, ascending.
RECURSIVE Remaining(_, _, _)
Remaining(list, path, k) ==
    IF k > Len(list) THEN << >>
    ELSE IF Excluded(list[k], path) THEN Remaining(list, path, k + 1)
    ELSE <<k>> \o Remaining(list, path, k + 1)

\* The run of a global phase is the run of its list without the excluded
\* entries: the invoked entries are the first ones of that list, in order;
\* each one followed by another succeeded with the tracker set; and once the
\* phase is left, an entry of that list was not reached only after a failure
\* or with the tracker unset.
RunsAsFiltered(before) ==
    LET phase == IF before THEN "before" ELSE "after"
        t == PhaseTrace(phase)
        rem == Remaining(GlobalList(before), req.path, 1)
        left == IF before THEN pc \in {"lookup", "route", "after", "default"}
                ELSE pc = "default"
    IN  /\ Len(t) <= Len(rem)
        /\ \A k \in 1..Len(t) : t[k].idx = rem[k]
        /\ \A k \in 1..(Len(t) - 1) :
               ~t[k].err /\ \E j \in 1..k : t[j].next
        /\ (left /\ Len(t) < Len(rem)) =>
               /\ Len(t) > 0
               /\ \A j \in 1..Len(t) : ~t[j].next

\* C6: a global handler with a pattern matching the path is never invoked,
\* and each global phase runs as if its excluded entries were not in the list.
C6_ExcludedEntriesAreTransparent ==
    pc \notin {"off", "idle"} =>
        \A before \in BOOLEAN : RunsAsFiltered(before)

\* C6 witness: in beforeAll an excluded entry stands between two entries that
\* ran, the first of which called next and the second did not.
C6_Witness ==
    /\ pc = "lookup"
    /\ Len(router.globalHandlers.beforeAll) = 3
    /\ Excluded(router.globalHandlers.beforeAll[2], req.path)
    /\ Positions(invoked) = << <<"before", 1>>, <<"before", 3>> >>
    /\ invoked[1].next
    /\ ~invoked[2].next

\* C7: a dispatch that found the route and ran through all phases without a
\* failure, and in which no handler wrote a status, ends with status 500.
C7_NoResponseDefaultsTo500 ==
    (pc = "done" /\ Registered4Req # << >> /\ ~SomeFailed /\ ~handlerWrote)
        => StatusCode = StatusInternalServerError

\* C7 witness: a route handler and an afterAll handler ran, neither wrote.
C7_Witness ==
    /\ pc = "done"
    /\ ~SomeFailed
    /\ ~handlerWrote
    /\ Len(PhaseTrace("route")) > 0
    /\ Len(PhaseTrace("after")) > 0
    /\ StatusCode = StatusInternalServerError

\* C14 as stated: in every phase, a handler that returned success without
\* calling next in its own invocation is the last handler invoked in that
\* phase.
C14_NoNextEndsPhase ==
    \A k \in 1..Len(invoked) :
        (~invoked[k].next /\ ~invoked[k].err) =>
            \A j \in (k + 1)..Len(invoked) :
                invoked[j].phase # invoked[k].phase

\* The beforeAll chain was stopped by a handler that returned success with
\* the tracker unset.
BeforeStoppedWithoutNext ==
    LET t == PhaseTrace("before")
    IN  /\ Len(t) > 0
        /\ \A j \in 1..Len(t) : ~t[j].next /\ ~t[j].err

BeforeChainRan ==
    LET t == PhaseTrace("before")
        rem == Remaining(router.globalHandlers.beforeAll, req.path, 1)
    IN  /\ Len(t) <= Len(rem)
        /\ \A k \in 1..Len(t) : t[k].idx = rem[k] /\ ~t[k].err
        /\ Len(t) < Len(rem) => (Len(t) > 0 /\ \A j \in 1..Len(t) : ~t[j].next)

\* The dispatch ended at the route lookup: nothing is registered for the
\* request's (path, method) and no beforeAll handler failed.
EndedInMiss == pc = "done" /\ Registered4Req = << >> /\ ~SomeFailed

\* C16: a dispatch that ended in a routing miss invoked no afterAll handler
\* and no route handler, and the beforeAll chain was run before the lookup.
C16_MissSkipsAfterAll ==
    EndedInMiss =>
        /\ PhaseTrace("after") = << >>
        /\ PhaseTrace("route") = << >>
        /\ BeforeChainRan
        /\ StatusCode = StatusNotFound

\* C16 witness: a miss on the method with a Route for the path, a beforeAll
\* handler that ran, and an afterAll handler registered that applies to the
\* path and was not run.
C16_Witness ==
    /\ EndedInMiss
    /\ TrieHas(router.trie, req.path)
    /\ Len(PhaseTrace("before")) > 0
    /\ Len(router.globalHandlers.afterAll) > 0
    /\ ~Excluded(router.globalHandlers.afterAll[1], req.path)
    /\ PhaseTrace("after") = << >>

\* C21: every dispatch returns with a status code set, so the binding's read
\* of *wrapper.StatusCode never panics; and a request the mux answers itself
\* has a status too.
C21_DispatchAlwaysSetsStatus ==
    /\ pc # "panic"
    /\ pc \in {"done", "answered"} => StatusCode # NoStatus

\* C21 witness: a bound path was requested, the route handler and an afterAll
\* handler ran, no handler wrote a status or failed, and the binding has read
\* the default 500.
C21_Witness ==
    /\ pc = "answered"
    /\ req.path \in mux
    /\ ~handlerWrote
    /\ ~SomeFailed
    /\ Len(PhaseTrace("route")) > 0
    /\ Len(PhaseTrace("after")) > 0
    /\ StatusCode = StatusInternalServerError

\* The dispatch of the request is running or has returned.
Dispatching == pc \in {"before", "lookup", "route", "after", "default", "done"}

\* A beforeAll handler failed.
BeforeFailed ==
    \E k \in 1..Len(invoked) : invoked[k].phase = "before" /\ invoked[k].err

\* Bindings and the routing table: the mux binds known paths only; a request
\* is dispatched only for a bound path; a request for an unbound path is
\* answered 404 with no handler run, whatever is registered for it by now;
\* and a dispatch that is over used the handlers the table holds now for the
\* request's (path, method): 404 when there are none, otherwise they were
\* invoked from the first on, up to a failure or a stop.
BindingResolvesAtRequestTime ==
    LET t == PhaseTrace("route")
    IN  /\ mux \subseteq router.paths
        /\ Dispatching => req.path \in mux
        /\ (pc = "answered" /\ req.path \notin mux) =>
               /\ invoked = << >>
               /\ StatusCode = StatusNotFound
        /\ (pc \in {"done", "answered"} /\ req.path \in mux /\ ~BeforeFailed) =>
               /\ Len(t) <= Len(Registered4Req)
               /\ \A k \in 1..Len(t) : t[k].idx = k
               /\ Registered4Req = << >> => StatusCode = StatusNotFound
               /\ Registered4Req # << >> => Len(t) > 0
               /\ Len(t) < Len(Registered4Req) =>
                      \/ t[Len(t)].err
                      \/ \A j \in 1..Len(t) : ~t[j].next

\* C25: the mux is built by Listen only, from the paths known at that moment,
\* and is not changed by a later Use; each binding resolves the handlers from
\* the routing table at request time; a path first registered after Listen
\* has no binding.
C25_BindAtListenResolveAtRequest ==
    [][/\ mux' # mux => (pc = "off" /\ mux' = router.paths /\ router' = router)
       /\ BindingResolvesAtRequestTime']_vars

\* C25 witness: Listen bound path t; afterwards path t2 and then a POST
\* handler for t were registered; t2 has no binding, and a POST request for t
\* ran the handler registered after Listen.
C25_Witness ==
    /\ pc = "answered"
    /\ mux = {<<"t">>}
    /\ useLog = << << <<"t">>, GET, "h1" >>, << <<"t", "2">>, GET, "h1" >>,
                   << <<"t">>, POST, "h1" >> >>
    /\ req = [path |-> <<"t">>, method |-> POST]
    /\ Len(PhaseTrace("route")) = 1

(***************************************************************************)
(* Server lifecycle (server.go): GetServer, SetTLSConfig, SetRouter,       *)
(* Listen, Shutdown. Each goroutine executes one source statement per      *)
(* step; proc[p].pc names the statement it is at.                          *)
(***************************************************************************)
\* validatePath succeeds on both files of the config.
ValidFiles(tls) == tls = "certA"

\* The goroutine is at statement at of a call.
At(p, at) == crashed = "no" /\ proc[p].pc = at

\* The goroutine can make the next call: it is in no call, and it is the
\* first such goroutine (which idle goroutine calls makes no difference).
Free(p) ==
    /\ At(p, "idle")
    /\ \A q \in Procs : q < p => proc[q].pc # "idle"

\* The goroutine moves to statement at.
Goto(p, at) == proc' = [proc EXCEPT ![p].pc = at]

\* log.Fatal, or a panic, in the goroutine: the process ends.
Crash(p, how) ==
    /\ crashed' = how
    /\ proc' = [proc EXCEPT ![p].pc = how]

\* The call returns to its caller in the goroutine: a call made from the
\* goroutine itself ends; Shutdown(true) called by SetRouter or SetTLSConfig
\* returns into it, where an error is fatal.
ReturnFrom(p, err) ==
    CASE proc[p].from = "top" ->
           /\ proc' = [proc EXCEPT ![p] = IdleProc]
           /\ crashed' = crashed
      [] proc[p].from \in {"rt", "tls"} /\ err # "nil" ->
           Crash(p, "fatal")
      [] proc[p].from = "rt" /\ err = "nil" ->
           /\ proc' = [proc EXCEPT ![p].pc = "rt_store", ![p].from = "top"]
           /\ crashed' = crashed
      [] proc[p].from = "tls" /\ err = "nil" ->
           /\ proc' = [proc EXCEPT ![p].pc = "tls_validate", ![p].from = "top"]
           /\ crashed' = crashed

\* A goroutine calls GetServer(ctx, tls).
CallGetServer(p, tls) ==
    /\ Free(p)
    /\ ops < MaxOps
    /\ ops' = ops + 1
    /\ proc' = [proc EXCEPT ![p] = [IdleProc EXCEPT !.op = "GetServer",
                                                    !.pc = "once", !.arg = tls]]
    /\ UNCHANGED <<routerVars, dispatchVars, notice, once, instance, servers, inflight, listens, crashed,
                   cleanupRuns, returned>>

\* GetServer: once.Do(...), which builds the Server on the first call.
GetServerOnce(p) ==
    /\ At(p, "once")
    /\ once' = TRUE
    /\ instance' = IF once THEN instance
                   ELSE [id |-> instance.id + 1, router |-> "r1",
                         tls |-> proc[p].arg, httpServer |-> 0,
                         serving |-> FALSE, shuttingDown |-> FALSE]
    /\ Goto(p, "differ")
    /\ UNCHANGED <<routerVars, dispatchVars, notice, servers, inflight, ops, listens, crashed, cleanupRuns, returned>>

\* GetServer: if _instance.tls != tls { return _instance.SetTLSConfig(tls) };
\* return _instance.
GetServerCompare(p) ==
    /\ At(p, "differ")
    /\ IF instance.tls # proc[p].arg
       THEN /\ Goto(p, "tls_same")
            /\ returned' = returned
       ELSE /\ proc' = [proc EXCEPT ![p] = IdleProc]
            /\ returned' = returned \cup {instance.id}
    /\ UNCHANGED <<routerVars, dispatchVars, notice, once, instance, servers, inflight, ops, listens, crashed,
                   cleanupRuns>>

\* SetTLSConfig: if instance.tls == tls { return instance }.
SetTLSConfigSame(p) ==
    /\ At(p, "tls_same")
    /\ IF instance.tls = proc[p].arg
       THEN /\ proc' = [proc EXCEPT ![p] = IdleProc]
            /\ returned' = returned \cup {instance.id}
       ELSE /\ Goto(p, "tls_serving")
            /\ returned' = returned
    /\ UNCHANGED <<routerVars, dispatchVars, notice, once, instance, servers, inflight, ops, listens, crashed,
                   cleanupRuns>>

\* SetTLSConfig: if instance.serving { err := instance.Shutdown(true) ... }.
SetTLSConfigServing(p) ==
    /\ At(p, "tls_serving")
    /\ IF instance.serving
       THEN proc' = [proc EXCEPT ![p].pc = "sd_serving", ![p].from = "tls",
                                 ![p].will = TRUE, ![p].forced = TRUE]
       ELSE Goto(p, "tls_validate")
    /\ UNCHANGED <<routerVars, dispatchVars, notice, once, instance, servers, inflight, ops, listens, crashed,
                   cleanupRuns, returned>>

\* SetTLSConfig: validatePath(tls.CertFilePath), validatePath(tls.KeyFilePath).
\* tls.CertFilePath dereferences a nil tls.
SetTLSConfigValidate(p) ==
    /\ At(p, "tls_validate")
    /\ IF proc[p].arg = "nil" THEN Crash(p, "panic")
       ELSE IF ~ValidFiles(proc[p].arg) THEN Crash(p, "fatal")
       ELSE Goto(p, "tls_store") /\ crashed' = crashed
    /\ UNCHANGED <<routerVars, dispatchVars, notice, once, instance, servers, inflight, ops, listens,
                   cleanupRuns, returned>>

\* SetTLSConfig: instance.tls = tls; return instance.
SetTLSConfigStore(p) ==
    /\ At(p, "tls_store")
    /\ instance' = [instance EXCEPT !.tls = proc[p].arg]
    /\ proc' = [proc EXCEPT ![p] = IdleProc]
    /\ returned' = returned \cup {instance.id}
    /\ UNCHANGED <<routerVars, dispatchVars, notice, once, servers, inflight, ops, listens, crashed, cleanupRuns>>

\* A goroutine that holds the *Server calls SetRouter(router).
CallSetRouter(p, r) ==
    /\ Free(p)
    /\ once
    /\ ops < MaxOps
    /\ ops' = ops + 1
    /\ proc' = [proc EXCEPT ![p] = [IdleProc EXCEPT !.op = "SetRouter",
                                                    !.pc = "rt_same", !.arg = r]]
    /\ UNCHANGED <<routerVars, dispatchVars, notice, once, instance, servers, inflight, listens, crashed,
                   cleanupRuns, returned>>

\* SetRouter: if instance.router == router { return instance }.
SetRouterSame(p) ==
    /\ At(p, "rt_same")
    /\ IF instance.router = proc[p].arg
       THEN proc' = [proc EXCEPT ![p] = IdleProc]
       ELSE Goto(p, "rt_serving")
    /\ UNCHANGED <<routerVars, dispatchVars, notice, once, instance, servers, inflight, ops, listens, crashed,
                   cleanupRuns, returned>>

\* SetRouter: if instance.serving { err := instance.Shutdown(true) ... }.
SetRouterServing(p) ==
    /\ At(p, "rt_serving")
    /\ IF instance.serving
       THEN proc' = [proc EXCEPT ![p].pc = "sd_serving", ![p].from = "rt",
                                 ![p].will = TRUE, ![p].forced = TRUE]
       ELSE Goto(p, "rt_store")
    /\ UNCHANGED <<routerVars, dispatchVars, notice, once, instance, servers, inflight, ops, listens, crashed,
                   cleanupRuns, returned>>

\* SetRouter: instance.router = router; return instance.
SetRouterStore(p) ==
    /\ At(p, "rt_store")
    /\ instance' = [instance EXCEPT !.router = proc[p].arg]
    /\ proc' = [proc EXCEPT ![p] = IdleProc]
    /\ UNCHANGED <<routerVars, dispatchVars, notice, once, servers, inflight, ops, listens, crashed, cleanupRuns,
                   returned>>

\* A goroutine that holds the *Server calls Listen(port, observer).
CallListen(p) ==
    /\ Free(p)
    /\ once
    /\ ops < MaxOps
    /\ listens < MaxListen
    /\ ops' = ops + 1
    /\ listens' = listens + 1
    /\ proc' = [proc EXCEPT ![p] = [IdleProc EXCEPT !.op = "Listen",
                                                    !.pc = "ln_check"]]
    /\ UNCHANGED <<routerVars, dispatchVars, notice, once, instance, servers, inflight, crashed, cleanupRuns,
                   returned>>

\* Listen: if instance.serving { log.Fatal(...) }.
ListenCheck(p) ==
    /\ At(p, "ln_check")
    /\ IF instance.serving THEN Crash(p, "fatal")
       ELSE Goto(p, "ln_set") /\ crashed' = crashed
    /\ UNCHANGED <<routerVars, dispatchVars, notice, once, instance, servers, inflight, ops, listens,
                   cleanupRuns, returned>>

\* Listen: instance.serving = true.
ListenSet(p) ==
    /\ At(p, "ln_set")
    /\ instance' = [instance EXCEPT !.serving = TRUE]
    /\ Goto(p, "ln_server")
    /\ UNCHANGED <<routerVars, dispatchVars, notice, once, servers, inflight, ops, listens, crashed, cleanupRuns,
                   returned>>

\* Listen: the mux is built, instance.httpServer = &http.Server{...}, and the
\* observer is closed.
ListenServer(p) ==
    /\ At(p, "ln_server")
    /\ servers' = Append(servers, "new")
    /\ instance' = [instance EXCEPT !.httpServer = Len(servers) + 1]
    /\ Goto(p, "ln_serve")
    /\ UNCHANGED <<routerVars, dispatchVars, notice, once, inflight, ops, listens, crashed, cleanupRuns, returned>>

\* Listen: instance.httpServer.ListenAndServe[TLS](...) is called. It returns
\* http.ErrServerClosed at once on a server that was shut down, an error when
\* the certificate cannot be loaded or the address cannot be bound, and
\* otherwise serves until the server stops.
ListenServe(p) ==
    /\ At(p, "ln_serve")
    /\ LET h == instance.httpServer
       IN  \/ /\ servers[h] = "closed"
              /\ proc' = [proc EXCEPT ![p].pc = "ln_unset",
                                      ![p].err = "ErrServerClosed"]
              /\ servers' = servers
           \/ /\ servers[h] # "closed"
              /\ proc' = [proc EXCEPT ![p].pc = "ln_unset", ![p].err = "error"]
              /\ servers' = servers
           \/ /\ servers[h] \in {"new", "failed"}
              /\ instance.tls = "nil" \/ ValidFiles(instance.tls)
              /\ proc' = [proc EXCEPT ![p].pc = "ln_blocked", ![p].srv = h]
              /\ servers' = [servers EXCEPT ![h] = "serving"]
    /\ UNCHANGED <<routerVars, dispatchVars, notice, once, instance, inflight, ops, listens, crashed, cleanupRuns,
                   returned>>

\* A variant: ListenAndServe yields no error after Shutdown.
ListenServeReturnsNil(p) ==
    /\ At(p, "ln_blocked")
    /\ \/ /\ servers[proc[p].srv] = "closed"
          /\ proc' = [proc EXCEPT ![p].pc = "ln_unset", ![p].err = "nil"]
          /\ servers' = servers
       \/ /\ servers[proc[p].srv] = "serving"
          /\ proc' = [proc EXCEPT ![p].pc = "ln_unset", ![p].err = "error"]
          /\ servers' = [servers EXCEPT ![proc[p].srv] = "failed"]
    /\ UNCHANGED <<routerVars, dispatchVars, notice, once, instance, inflight, ops, listens, crashed, cleanupRuns,
                   returned>>

\* Listen: ListenAndServe returns, with http.ErrServerClosed after Shutdown
\* was called on the server, or because the transport failed.
ListenServeReturns(p) ==
    /\ At(p, "ln_blocked")
    /\ \/ /\ servers[proc[p].srv] = "closed"
          /\ proc' = [proc EXCEPT ![p].pc = "ln_unset",
                                  ![p].err = "ErrServerClosed"]
          /\ servers' = servers
       \/ /\ servers[proc[p].srv] = "serving"
          /\ proc' = [proc EXCEPT ![p].pc = "ln_unset", ![p].err = "error"]
          /\ servers' = [servers EXCEPT ![proc[p].srv] = "failed"]
    /\ UNCHANGED <<routerVars, dispatchVars, notice, once, instance, inflight, ops, listens, crashed, cleanupRuns,
                   returned>>

\* Listen: instance.serving = false; return err.
ListenUnset(p) ==
    /\ At(p, "ln_unset")
    /\ instance' = [instance EXCEPT !.serving = FALSE]
    /\ proc' = [proc EXCEPT ![p] = IdleProc]
    /\ UNCHANGED <<routerVars, dispatchVars, notice, once, servers, inflight, ops, listens, crashed, cleanupRuns,
                   returned>>

\* A goroutine that holds the *Server calls Shutdown(willRestart).
CallShutdown(p, willRestart) ==
    /\ Free(p)
    /\ once
    /\ ops < MaxOps
    /\ ops' = ops + 1
    /\ proc' = [proc EXCEPT ![p] = [IdleProc EXCEPT !.op = "Shutdown",
                                                    !.pc = "sd_serving",
                                                    !.will = willRestart]]
    /\ UNCHANGED <<routerVars, dispatchVars, notice, once, instance, servers, inflight, listens, crashed,
                   cleanupRuns, returned>>

\* A bug: the serving test is not made.
ShutdownServingProceeds(p) ==
    /\ At(p, "sd_serving")
    /\ Goto(p, "sd_shutting")
    /\ UNCHANGED <<routerVars, dispatchVars, notice, once, instance, servers, inflight, ops, listens,
                   crashed, cleanupRuns, returned>>

\* Shutdown: if !instance.serving { return nil }.
ShutdownServing(p) ==
    /\ At(p, "sd_serving")
    /\ IF ~instance.serving
       THEN ReturnFrom(p, "nil") /\ notice' = "not running"
       ELSE Goto(p, "sd_shutting") /\ crashed' = crashed /\ notice' = notice
    /\ UNCHANGED <<routerVars, dispatchVars, once, instance, servers, inflight, ops, listens,
                   cleanupRuns, returned>>

\* Shutdown: if instance.shuttingDown { return nil }.
ShutdownShutting(p) ==
    /\ At(p, "sd_shutting")
    /\ IF instance.shuttingDown
       THEN ReturnFrom(p, "nil") /\ notice' = "already shutting down"
       ELSE Goto(p, "sd_set") /\ crashed' = crashed /\ notice' = notice
    /\ UNCHANGED <<routerVars, dispatchVars, once, instance, servers, inflight, ops, listens,
                   cleanupRuns, returned>>

\* Shutdown: instance.shuttingDown = true.
ShutdownSet(p) ==
    /\ At(p, "sd_set")
    /\ instance' = [instance EXCEPT !.shuttingDown = TRUE]
    /\ Goto(p, "sd_stop")
    /\ UNCHANGED <<routerVars, dispatchVars, notice, once, servers, inflight, ops, listens, crashed, cleanupRuns,
                   returned>>

\* Shutdown: if instance.httpServer != nil, httpServer.Shutdown(c) is called:
\* the server stops accepting and its Serve returns.
ShutdownStop(p) ==
    /\ At(p, "sd_stop")
    /\ IF instance.httpServer # 0
       THEN /\ servers' = [servers EXCEPT ![instance.httpServer] = "closed"]
            /\ proc' = [proc EXCEPT ![p].pc = "sd_wait",
                                    ![p].srv = instance.httpServer,
                                    ![p].stopped =
                                        servers[instance.httpServer]
                                            \in {"new", "serving"}]
       ELSE /\ servers' = servers
            /\ Goto(p, "sd_clear")
    /\ UNCHANGED <<routerVars, dispatchVars, notice, once, instance, inflight, ops, listens, crashed, cleanupRuns,
                   returned>>

\* Shutdown: httpServer.Shutdown(c) returns, nil once no request is being
\* handled, or with an error (then Shutdown returns it).
ShutdownWait(p) ==
    /\ At(p, "sd_wait")
    /\ \/ /\ proc[p].srv \notin inflight
          /\ proc' = [proc EXCEPT ![p].pc = "sd_clear", ![p].srv = 0]
          /\ crashed' = crashed
       \/ ReturnFrom(p, "error")
    /\ UNCHANGED <<routerVars, dispatchVars, notice, once, instance, servers, inflight, ops, listens,
                   cleanupRuns, returned>>

\* Shutdown: instance.shuttingDown = false; with willRestart, return nil.
ShutdownClear(p) ==
    /\ At(p, "sd_clear")
    /\ instance' = [instance EXCEPT !.shuttingDown = FALSE]
    /\ IF proc[p].will THEN ReturnFrom(p, "nil")
       ELSE Goto(p, "sd_cleanup") /\ crashed' = crashed
    /\ UNCHANGED <<routerVars, dispatchVars, notice, once, servers, inflight, ops, listens, cleanupRuns, returned>>

\* Shutdown: the loop over additionalCleanup (the one callback setup
\* registers); return its error, or nil.
ShutdownCleanup(p) ==
    /\ At(p, "sd_cleanup")
    /\ cleanupRuns' = cleanupRuns + 1
    /\ \E err \in {"nil", "error"} : ReturnFrom(p, err)
    /\ UNCHANGED <<routerVars, dispatchVars, notice, once, instance, servers, inflight, ops, listens, returned>>

\* The transport hands a request to its binding.
RequestArrives(h) ==
    /\ crashed = "no"
    /\ h <= Len(servers)
    /\ servers[h] = "serving"
    /\ h \notin inflight
    /\ inflight' = inflight \cup {h}
    /\ UNCHANGED <<routerVars, dispatchVars, notice, once, instance, servers, proc, ops, listens, crashed,
                   cleanupRuns, returned>>

\* The binding of a request returns.
RequestDone(h) ==
    /\ crashed = "no"
    /\ h \in inflight
    /\ inflight' = inflight \ {h}
    /\ UNCHANGED <<routerVars, dispatchVars, notice, once, instance, servers, proc, ops, listens, crashed,
                   cleanupRuns, returned>>

ServerNext ==
    \/ \E p \in Procs, tls \in TLSConfigs : CallGetServer(p, tls)
    \/ \E p \in Procs : GetServerOnce(p)
    \/ \E p \in Procs : GetServerCompare(p)
    \/ \E p \in Procs : SetTLSConfigSame(p)
    \/ \E p \in Procs : SetTLSConfigServing(p)
    \/ \E p \in Procs : SetTLSConfigValidate(p)
    \/ \E p \in Procs : SetTLSConfigStore(p)
    \/ \E p \in Procs, r \in RouterIds : CallSetRouter(p, r)
    \/ \E p \in Procs : SetRouterSame(p)
    \/ \E p \in Procs : SetRouterServing(p)
    \/ \E p \in Procs : SetRouterStore(p)
    \/ \E p \in Procs : CallListen(p)
    \/ \E p \in Procs : ListenCheck(p)
    \/ \E p \in Procs : ListenSet(p)
    \/ \E p \in Procs : ListenServer(p)
    \/ \E p \in Procs : ListenServe(p)
    \/ \E p \in Procs : ListenServeReturns(p)
    \/ \E p \in Procs : ListenUnset(p)
    \/ \E p \in Procs, w \in BOOLEAN : CallShutdown(p, w)
    \/ \E p \in Procs : ShutdownServing(p)
    \/ \E p \in Procs : ShutdownShutting(p)
    \/ \E p \in Procs : ShutdownSet(p)
    \/ \E p \in Procs : ShutdownStop(p)
    \/ \E p \in Procs : ShutdownWait(p)
    \/ \E p \in Procs : ShutdownClear(p)
    \/ \E p \in Procs : ShutdownCleanup(p)
    \/ \E h \in 1..MaxListen : RequestArrives(h)
    \/ \E h \in 1..MaxListen : RequestDone(h)

SpecServer == RouterInit /\ [][ServerNext]_vars

(***************************************************************************)
(* Properties of the server lifecycle.                                     *)
(***************************************************************************)
\* C8: every GetServer call, whatever its TLS config argument, ends by
\* returning the one Server instance: no call returns another instance, and no
\* call ends in a panic instead of returning. (A log.Fatal on a config whose
\* files are invalid, or on a failed forced shutdown, is the documented
\* configuration error and is not counted here.)
C8_GetServerReturnsTheInstance ==
    /\ returned \subseteq {1}
    /\ \A p \in Procs : proc[p].op = "GetServer" => proc[p].pc # "panic"

\* C9: a SetRouter or SetTLSConfig call that found the instance serving and
\* forced the shutdown overwrites the field only when the serving flag is
\* false, no transport is serving and no request is being handled.
C9_SwapOnlyWhenStopped ==
    [][\A p \in Procs :
          (/\ proc[p].forced
           /\ proc[p].pc \in {"rt_store", "tls_store"}
           /\ proc'[p].pc = "idle")
              => /\ ~instance.serving
                 /\ \A h \in 1..Len(servers) : servers[h] # "serving"
                 /\ inflight = {}]_vars

\* C10: at most one Listen call is between setting serving = true and
\* returning.
C10_AtMostOneListen ==
    Cardinality({p \in Procs :
                    proc[p].pc \in {"ln_server", "ln_serve", "ln_blocked",
                                    "ln_unset"}}) <= 1

\* The statements of Shutdown between setting shuttingDown and clearing it.
Stopping == {"sd_stop", "sd_wait", "sd_clear"}

\* The call of the goroutine returns to its caller with this step.
Returns(p) ==
    /\ proc'[p] # proc[p]
    /\ proc'[p].pc \in {"idle", "rt_store", "tls_validate"}

\* C11: a Shutdown call that finds the instance not serving returns nil to
\* its caller in that step and changes nothing: serving, shuttingDown and
\* httpServer keep their values, no transport is asked to stop, the teardown
\* callback does not run, the process does not end; for both values of
\* willRestart.
C11_ShutdownNotServingIsNoOp ==
    [][\A p \in Procs :
          (/\ proc[p].pc = "sd_serving"
           /\ ~instance.serving
           /\ proc'[p] # proc[p])
              => /\ Returns(p)
                 /\ instance' = instance
                 /\ servers' = servers
                 /\ cleanupRuns' = cleanupRuns
                 /\ crashed' = crashed]_vars

\* C11 witness: after a Listen call has come and gone, a Shutdown call found
\* the instance not serving and has returned; nothing is shutting down and no
\* teardown has run.
C11_Witness ==
    /\ notice = "not running"
    /\ crashed = "no"
    /\ listens > 0
    /\ \A p \in Procs : proc[p].pc = "idle"
    /\ ~instance.serving
    /\ ~instance.shuttingDown
    /\ cleanupRuns = 0

\* C12 as stated: the teardown callback runs only inside a Shutdown call
\* with willRestart = false that stopped a transport.
C12_TeardownOnlyAfterStop ==
    \A p \in Procs :
        proc[p].pc = "sd_cleanup" =>
            /\ proc[p].op = "Shutdown"
            /\ ~proc[p].will
            /\ proc[p].stopped

\* C13 as stated: a Listen call that ends because Shutdown stopped the
\* transport returns no error.
C13_CleanShutdownReturnsNil ==
    [][\A p \in Procs :
          (/\ proc[p].pc = "ln_blocked"
           /\ servers[proc[p].srv] = "closed"
           /\ proc'[p].pc = "ln_unset")
              => proc'[p].err = "nil"]_vars

\* C13: a Listen call whose ListenAndServe ends returns http.ErrServerClosed
\* when Shutdown had been called on the transport, and another error
\* otherwise; it never returns nil.
C13_CleanShutdownReturnsErrServerClosed ==
    [][\A p \in Procs :
          (/\ proc[p].pc \in {"ln_serve", "ln_blocked"}
           /\ proc'[p].pc = "ln_unset")
              => LET h == IF proc[p].pc = "ln_serve" THEN instance.httpServer
                          ELSE proc[p].srv
                 IN  proc'[p].err = IF servers[h] = "closed"
                                    THEN "ErrServerClosed"
                                    ELSE "error"]_vars

\* C13 witness: a Listen call served, a Shutdown call stopped its transport
\* and has returned nil, and the Listen call is about to return
\* http.ErrServerClosed.
C13_Witness ==
    \E p \in Procs :
        /\ proc[p].pc = "ln_unset"
        /\ proc[p].srv # 0
        /\ servers[proc[p].srv] = "closed"
        /\ proc[p].err = "ErrServerClosed"
        /\ \A q \in Procs \ {p} : proc[q].pc = "idle"
        /\ ~instance.shuttingDown
        /\ crashed = "no"

\* C17 as stated: of the Shutdown calls in progress, at most one is past the
\* shuttingDown test (about to ask the transport to stop, waiting for it, or
\* running the teardown).
C17_AtMostOneShutdownProceeds ==
    Cardinality({p \in Procs : proc[p].pc \in Stopping \cup {"sd_cleanup"}}) <= 1

\* C18 as stated: when a Shutdown call that set shuttingDown returns to its
\* caller, shuttingDown is false, unless another call that set it is still in
\* progress.
C18_ShuttingDownClearedOnReturn ==
    [][\A p \in Procs :
          (/\ proc[p].pc \in {"sd_wait", "sd_clear", "sd_cleanup"}
           /\ Returns(p))
              => \/ ~instance'.shuttingDown
                 \/ \E q \in Procs \ {p} : proc'[q].pc \in Stopping]_vars

\* C19 as stated: the teardown callback runs at most once.
C19_TeardownAtMostOnce == cleanupRuns <= 1

\* One statement of the call the goroutine is in. A transport that serves
\* keeps serving: only a stopped one makes ListenAndServe return.
Step(p) ==
    \/ GetServerOnce(p) \/ GetServerCompare(p)
    \/ SetTLSConfigSame(p) \/ SetTLSConfigServing(p)
    \/ SetTLSConfigValidate(p) \/ SetTLSConfigStore(p)
    \/ SetRouterSame(p) \/ SetRouterServing(p) \/ SetRouterStore(p)
    \/ ListenCheck(p) \/ ListenSet(p) \/ ListenServer(p) \/ ListenServe(p)
    \/ (ListenServeReturns(p) /\ servers[proc[p].srv] = "closed")
    \/ ListenUnset(p)
    \/ ShutdownServing(p) \/ ShutdownShutting(p) \/ ShutdownSet(p)
    \/ ShutdownStop(p) \/ ShutdownWait(p) \/ ShutdownClear(p)
    \/ ShutdownCleanup(p)

\* Every goroutine in a call is scheduled, and every request is answered.
SpecServerFair ==
    /\ SpecServer
    /\ \A p \in Procs : WF_vars(Step(p))
    /\ WF_vars(\E h \in 1..MaxListen : RequestDone(h))

\* C20 as stated: when a Shutdown(true) call that found serving true is about
\* to return nil, the instance eventually leaves Serving (or the process has
\* ended).
C20_ShutdownEndsServing ==
    (\E p \in Procs :
        /\ proc[p].op = "Shutdown"
        /\ proc[p].pc = "sd_clear"
        /\ proc[p].will
        /\ crashed = "no")
        ~> (~instance.serving \/ crashed # "no")

\* C22 as stated: a TLS config the instance stores has certificate and key
\* files that validatePath accepts.
C22_StoredConfigIsValid ==
    instance.tls # "nil" => ValidFiles(instance.tls)

====
